---- MODULE Spec2Model ----
(***************************************************************************)
(* Model of SOL_GPT/main.py: the FastAPI service with GET /price, /wallet  *)
(* and /swap, its two memoized downloads (SPL token list, CoinGecko coin   *)
(* list) and resolve_symbol_or_mint.                                       *)
(*                                                                         *)
(* A Python str is a sequence of one-character strings, so that strip,     *)
(* upper, lstrip, isalnum, len, int() and str() are computed and not       *)
(* assumed.  Upstream answers are inputs: every step that issues an HTTP   *)
(* call picks the answer nondeterministically.  One request is in flight   *)
(* at a time; its steps follow the handler's statement order.              *)
(***************************************************************************)
EXTENDS Integers, Sequences, FiniteSets, TLC

VARIABLES
    env_key,      \* os.environ has a non-empty HELIUS_API_KEY
    spl_cache,    \* lru_cache of load_spl_token_list
    cg_list_cache,\* lru_cache of load_coingecko_list
    cg_map_cache, \* lru_cache of build_coingecko_mappings
    pc,           \* position of the request in flight
    req,          \* the request in flight (or the last one served)
    loc,          \* the handler's local variables
    calls,        \* upstream HTTP calls issued by this request, in order
    key_read,     \* this request has called os.getenv("HELIUS_API_KEY")
    resolved,     \* calls of resolve_symbol_or_mint made by this request
    resp,         \* the HTTP response of the request
    nreq,         \* requests started in this process
    tl_requests,  \* per token-list URL: GETs issued in this process
    tl_returns,   \* the values load_spl_token_list has returned in this process
    cg_requests,  \* GETs of COINGECKO_LIST_URL issued in this process
    cg_last       \* outcome of the latest coin-list download ("none" before)

vars == <<env_key, spl_cache, cg_list_cache, cg_map_cache, pc, req, loc, calls,
          key_read, resolved, resp, nreq, tl_requests, tl_returns,
          cg_requests, cg_last>>

\* Requests served by one process in the model.
MaxRequests == 3

-----------------------------------------------------------------------------
(* Python values *)

\* None, as a value no str equals.
None == <<"None">>

\* No response yet: a response is a status code and a JSON body
NoResp == [status |-> 0, body |-> None]

LowerLetters == <<"a","b","c","d","e","f","g","h","i","j","k","l","m",
                  "n","o","p","q","r","s","t","u","v","w","x","y","z">>
UpperLetters == <<"A","B","C","D","E","F","G","H","I","J","K","L","M",
                  "N","O","P","Q","R","S","T","U","V","W","X","Y","Z">>
DigitChars == <<"0","1","2","3","4","5","6","7","8","9">>

Range(s) == {s[i] : i \in DOMAIN s}

\* A function on 1..n as the sequence it is
AsSeq(f) == SubSeq(f, 1, Len(f))

DigitSet == Range(DigitChars)
AlnumSet == Range(LowerLetters) \cup Range(UpperLetters) \cup Range(DigitChars)
UpperOf == [c \in Range(LowerLetters) |->
               UpperLetters[CHOOSE i \in 1..26 : LowerLetters[i] = c]]

IsDigit(c) == c \in DigitSet
IsAlnumChar(c) == c \in AlnumSet

\* str.upper on one character
upper_char(c) == IF c \in DOMAIN UpperOf THEN UpperOf[c] ELSE c

\* str.upper
upper(s) == AsSeq([i \in 1..Len(s) |-> upper_char(s[i])])

\* str.isalnum: non-empty and every character alphanumeric
isalnum(s) == Len(s) > 0 /\ \A i \in 1..Len(s) : IsAlnumChar(s[i])

\* str.lstrip(chars) / str.rstrip(chars) for a set of characters
RECURSIVE lstrip_set(_, _)
lstrip_set(s, cs) ==
    IF Len(s) > 0 /\ s[1] \in cs THEN lstrip_set(Tail(s), cs) ELSE s

RECURSIVE rstrip_set(_, _)
rstrip_set(s, cs) ==
    IF Len(s) > 0 /\ s[Len(s)] \in cs
    THEN rstrip_set(SubSeq(s, 1, Len(s) - 1), cs) ELSE s

Whitespace == {" ", "\t", "\n"}

\* str.strip()
strip(s) == rstrip_set(lstrip_set(s, Whitespace), Whitespace)

\* str.lstrip("$")
lstrip_dollar(s) == lstrip_set(s, {"$"})

-----------------------------------------------------------------------------
(* Constants of main.py *)

USDC_MINT == <<"E","P","j","F","W","d","d","5","A","u","f","q","S","S","q","e","M","2","q","N","1","x","z","y","b","a","p","C","8","G","4","w","E","G","G","k","Z","w","y","T","D","t","1","v">>
WSOL_MINT == <<"S","o","1","1","1","1","1","1","1","1","1","1","1","1","1","1","1","1","1","1","1","1","1","1","1","1","1","1","1","1","1","1","1","1","1","1","1","1","1","1","1","1","2">>

\* Bounds of "looks like a mint" and of a valid wallet address
MintMinLen == 32
MintMaxLen == 44
AddrMinLen == 32
AddrMaxLen == 44

-----------------------------------------------------------------------------
(* Strings used as inputs and as upstream data *)

BONK_MINT == <<"D","e","z","X","A","Z","8","z","7","P","n","r","n","R","J","j","z","3","w","X","B","o","R","g","i","x","C","a","6","x","j","n","B","7","Y","a","B","1","p","P","B","2","6","3">>
UPPER_MINT == <<"A","B","C","D","E","F","G","H","2","3","4","5","6","7","8","9","2","3","4","5","6","7","8","9","A","B","C","D","E","F","G","H">>
T3_ADDR == AsSeq([i \in 1..40 |-> "T"])

ID_USDC == <<"U","S","D","C">>
ID_usdc == <<"$","u","s","d","c">>
ID_sol == <<" ","S","o","l"," ">>
ID_wsol == <<"w","s","o","l">>
ID_bonk == <<"$","B","o","n","k">>
ID_nope == <<"n","o","p","e">>
ID_dollar == <<"$">>
ID_jup == <<"j","u","p">>
ID_padded_mint == <<" ", "$">> \o BONK_MINT \o <<" ">>
ID_short31 == AsSeq([i \in 1..31 |-> "A"])
ID_long45 == AsSeq([i \in 1..45 |-> "A"])
ID_dash32 == ID_short31 \o <<"-">>

SYM_SOL == <<"S","O","L">>
SYM_WSOL == <<"W","S","O","L">>
SYM_USDC == <<"U","S","D","C">>
SYM_Bonk == <<"B","o","n","k">>
SYM_BONK == <<"B","O","N","K">>
SYM_bonk == <<"b","o","n","k">>
SYM_JUP == <<"J","U","P">>

CGID_bonk == <<"b","o","n","k">>
CGID_upper == <<"u","p","p","e","r">>
CGID_jupiter == <<"j","u","p","i","t","e","r">>

\* symbol_or_mint of GET /price
PriceIdents ==
    {ID_USDC, ID_usdc, ID_sol, ID_bonk, ID_nope, ID_dollar, ID_jup,
     USDC_MINT, WSOL_MINT, BONK_MINT, UPPER_MINT, ID_padded_mint,
     ID_short31, ID_long45, ID_dash32}

\* inputMint / outputMint of GET /swap
SwapIdents == {ID_wsol, ID_bonk, ID_nope, UPPER_MINT}

-----------------------------------------------------------------------------
(* The SPL token list: load_spl_token_list under lru_cache(maxsize=1) *)

\* The "tokens" arrays a token-list URL may serve.  An absent key is None.
TOKENS_A ==
    << [symbol |-> SYM_Bonk, address |-> BONK_MINT],
       [symbol |-> SYM_BONK, address |-> UPPER_MINT],
       [symbol |-> None,     address |-> T3_ADDR],
       [symbol |-> SYM_JUP,  address |-> None] >>

TOKENS_B == << [symbol |-> SYM_bonk, address |-> UPPER_MINT] >>

\* What requests.get(url) + raise_for_status + json().get("tokens", []) gives:
\* an exception (ok = FALSE) or the list.
UrlFail == [ok |-> FALSE, tokens |-> <<>>]
UrlOutcomes ==
    {UrlFail} \cup {[ok |-> TRUE, tokens |-> t] : t \in {TOKENS_A, TOKENS_B, <<>>}}

\* One entry of the log of upstream calls: the endpoint, whether the call
\* returned (no connection error, no timeout, raise_for_status passed), and
\* the decoded JSON body when it did.
Call(api, ok, body) == [api |-> api, ok |-> ok, body |-> body]

\* dict.get(key, default) on a field that may be absent
dict_get(v, default) == IF v = None THEN default ELSE v

\* Body of load_spl_token_list: the first URL that answers wins; [] when
\* both fail.  urls: the URLs requested, with whether each answered.
load_spl_token_list(o1, o2) ==
    IF o1.ok THEN [ret |-> o1.tokens, urls |-> <<Call("tokenlist1", TRUE, o1.tokens)>>]
    ELSE IF o2.ok
    THEN [ret |-> o2.tokens,
          urls |-> <<Call("tokenlist1", FALSE, None), Call("tokenlist2", TRUE, o2.tokens)>>]
    ELSE [ret |-> <<>>,
          urls |-> <<Call("tokenlist1", FALSE, None), Call("tokenlist2", FALSE, None)>>]

Uncached == [cached |-> FALSE, value |-> <<>>]

\* A memo that treats an empty result as "not loaded yet"
lru_cache_store_nonempty(value) ==
    IF value = <<>> THEN [cached |-> FALSE, value |-> <<>>]
    ELSE [cached |-> TRUE, value |-> value]

\* lru_cache(maxsize=1) of a function without arguments: every returned
\* value is stored, the empty list included.
lru_cache_store(value) == [cached |-> TRUE, value |-> value]

\* One call of the memoized load_spl_token_list() with cache state `cache`.
cached_load_spl_token_list(cache, o1, o2) ==
    IF cache.cached
    THEN [ret |-> cache.value, urls |-> <<>>, cache |-> cache]
    ELSE LET r == load_spl_token_list(o1, o2)
         IN  [ret |-> r.ret, urls |-> r.urls, cache |-> lru_cache_store(r.ret)]

-----------------------------------------------------------------------------
(* resolve_symbol_or_mint *)

\* raw = symbol.strip().upper().lstrip("$").strip()
raw_of(symbol) == strip(lstrip_dollar(upper(strip(symbol))))

looks_like_mint(raw) == MintMinLen <= Len(raw) /\ Len(raw) <= MintMaxLen /\ isalnum(raw)

\* The loop without its early return: the last matching entry wins
RECURSIVE token_loop_last(_, _, _)
token_loop_last(tokens, raw, i) ==
    IF i > Len(tokens) THEN 0
    ELSE LET later == token_loop_last(tokens, raw, i + 1)
         IN  IF later # 0 THEN later
             ELSE IF upper(dict_get(tokens[i].symbol, <<>>)) = raw THEN i ELSE 0

\* for token in tokens: if token.get("symbol", "").upper() == raw: return ...
\* Index of the entry the loop returns at, 0 when it runs to the end.
RECURSIVE token_loop(_, _, _)
token_loop(tokens, raw, i) ==
    IF i > Len(tokens) THEN 0
    ELSE IF upper(dict_get(tokens[i].symbol, <<>>)) = raw THEN i
    ELSE token_loop(tokens, raw, i + 1)

\* status 200 with the mint returned, or status 404 (HTTPException).
\* consulted: load_spl_token_list() was called.
resolve_symbol_or_mint(symbol, tokens) ==
    LET raw == raw_of(symbol) IN
    IF raw \in {SYM_SOL, SYM_WSOL}
    THEN [status |-> 200, mint |-> WSOL_MINT, consulted |-> FALSE]
    ELSE IF raw = SYM_USDC
    THEN [status |-> 200, mint |-> USDC_MINT, consulted |-> FALSE]
    ELSE IF looks_like_mint(raw)
    THEN [status |-> 200, mint |-> raw, consulted |-> FALSE]
    ELSE LET i == token_loop(tokens, raw, 1) IN
         IF i = 0
         THEN [status |-> 404, mint |-> None, consulted |-> TRUE]
         ELSE [status |-> 200, mint |-> tokens[i].address, consulted |-> TRUE]

\* resolve_symbol_or_mint over the inputs and token lists of the model,
\* computed once.
resolve_table ==
    [x \in (PriceIdents \cup SwapIdents) \X {o.tokens : o \in UrlOutcomes} |->
        resolve_symbol_or_mint(x[1], x[2])]
Resolve(symbol, tokens) == resolve_table[<<symbol, tokens>>]

\* Whether resolve_symbol_or_mint(symbol) reaches load_spl_token_list()
consults_token_list(symbol) == Resolve(symbol, <<>>).consulted

-----------------------------------------------------------------------------
(* int() and str() *)

RECURSIVE digits_value(_)
digits_value(s) ==
    IF Len(s) = 0 THEN 0
    ELSE 10 * digits_value(SubSeq(s, 1, Len(s) - 1))
         + (CHOOSE k \in 0..9 : DigitChars[k + 1] = s[Len(s)])

\* int(s) for a str: surrounding whitespace and one sign are accepted, then
\* decimal digits; anything else raises ValueError (ok = FALSE).
py_int(s) ==
    LET t == strip(s)
        signed == Len(t) > 0 /\ t[1] \in {"-", "+"}
        body == IF signed THEN Tail(t) ELSE t
    IN  IF Len(body) > 0 /\ \A i \in 1..Len(body) : IsDigit(body[i])
        THEN [ok |-> TRUE,
              val |-> IF signed /\ t[1] = "-" THEN 0 - digits_value(body)
                      ELSE digits_value(body)]
        ELSE [ok |-> FALSE, val |-> 0]

\* Decimal digits of a natural number
RECURSIVE int_digits(_)
int_digits(n) ==
    IF n < 10 THEN <<DigitChars[n + 1]>>
    ELSE int_digits(n \div 10) \o <<DigitChars[(n % 10) + 1]>>

zeros(k) == AsSeq([i \in 1..k |-> "0"])

\* str(n / 10**d) for a natural n below 10**15: the quotient is the double
\* nearest to n/10^d, whose shortest round-trip digits are the significant
\* digits of n; float.__repr__ prints them positionally when the decimal
\* point position decpt satisfies -4 < decpt <= 16 and as d.ddde[+-]XX
\* otherwise.
float_str(n, d) ==
    LET all == int_digits(n)
        sig == rstrip_set(all, {"0"})
        k == Len(sig)
        decpt == Len(all) - d
        e == decpt - 1
        abs_e == IF e < 0 THEN 0 - e ELSE e
        exp_digits == IF abs_e < 10 THEN <<"0">> \o int_digits(abs_e) ELSE int_digits(abs_e)
    IN  IF n = 0 THEN <<"0", ".", "0">>
        ELSE IF decpt <= -4 \/ decpt > 16
        THEN <<sig[1]>> \o (IF k > 1 THEN <<".">> \o SubSeq(sig, 2, k) ELSE <<>>)
             \o <<"e", IF e < 0 THEN "-" ELSE "+">> \o exp_digits
        ELSE IF decpt <= 0
        THEN <<"0", ".">> \o zeros(0 - decpt) \o sig
        ELSE IF decpt >= k
        THEN sig \o zeros(decpt - k) \o <<".", "0">>
        ELSE SubSeq(sig, 1, decpt) \o <<".">> \o SubSeq(sig, decpt + 1, k)

\* str(int(amount) / 10**decimals), sign included
str_of_quotient(n, d) ==
    IF n < 0 THEN <<"-">> \o float_str(0 - n, d) ELSE float_str(n, d)

\* A float held as the quotient it was computed from
Quotient(num, den) == [num |-> num, den |-> den]

LAMPORTS_PER_SOL == 1000000000
USDC_UNIT == 1000000

-----------------------------------------------------------------------------
(* The CoinGecko coin list: load_coingecko_list and build_coingecko_mappings *)

\* Coin lists COINGECKO_LIST_URL may serve.  solana: platforms.get("solana").
COINS_A ==
    << [id |-> CGID_bonk,    symbol |-> SYM_bonk, solana |-> BONK_MINT],
       [id |-> CGID_upper,   symbol |-> <<"u","p">>, solana |-> UPPER_MINT],
       [id |-> CGID_jupiter, symbol |-> ID_jup,   solana |-> None],
       [id |-> None,         symbol |-> ID_nope,  solana |-> None],
       [id |-> CGID_upper,   symbol |-> SYM_Bonk, solana |-> <<>>] >>
COINS_B == << [id |-> CGID_jupiter, symbol |-> SYM_bonk, solana |-> BONK_MINT] >>

CgListFail == [ok |-> FALSE, coins |-> <<>>]
CgListOutcomes == {CgListFail} \cup {[ok |-> TRUE, coins |-> c] : c \in {COINS_A, COINS_B}}

\* d[k] = v on a dict held as a function
dict_set(d, k, v) == (k :> v) @@ d

\* d.get(k)
dict_lookup(d, k) == IF k \in DOMAIN d THEN d[k] ELSE None

\* Python truthiness of an optional str
truthy(v) == v # None /\ v # <<>>

\* The loop of build_coingecko_mappings over coin_list[i..]
RECURSIVE build_loop(_, _, _)
build_loop(coin_list, i, acc) ==
    IF i > Len(coin_list) THEN acc
    ELSE LET entry == coin_list[i]
             sym == upper(dict_get(entry.symbol, <<>>))
             s2 == dict_set(acc.symbol_to_cgid, sym, entry.id)
             m2 == IF truthy(entry.solana)
                   THEN dict_set(acc.mint_to_cgid, entry.solana, entry.id)
                   ELSE acc.mint_to_cgid
         IN  build_loop(coin_list, i + 1, [mint_to_cgid |-> m2, symbol_to_cgid |-> s2])

build_coingecko_mappings(coin_list) ==
    build_loop(coin_list, 1, [mint_to_cgid |-> <<>>, symbol_to_cgid |-> <<>>])

\* A loader that swallows the exception and returns [], as
\* load_spl_token_list does: the empty list is memoized.
load_coingecko_list_cache_swallow(c) ==
    IF c.ok THEN [cached |-> TRUE, value |-> c.coins]
    ELSE [cached |-> TRUE, value |-> <<>>]

\* What lru_cache keeps of one call of load_coingecko_list whose GET gave c:
\* an exception leaves the cache empty, a returned list is stored.
load_coingecko_list_cache(c) ==
    IF c.ok THEN lru_cache_store(c.coins) ELSE Uncached

\* One call of the memoized build_coingecko_mappings() with the two caches
\* as they are and c the answer of COINGECKO_LIST_URL, should it be asked.
\* raised: the call ended in an exception (of load_coingecko_list).
cached_build_coingecko_mappings(map_cache, list_cache, c) ==
    IF map_cache.cached
    THEN [raised |-> FALSE, ret |-> map_cache.value, urls |-> <<>>,
          map_cache |-> map_cache, list_cache |-> list_cache]
    ELSE IF list_cache.cached
    THEN LET m == build_coingecko_mappings(list_cache.value)
         IN  [raised |-> FALSE, ret |-> m, urls |-> <<>>,
              map_cache |-> lru_cache_store(m), list_cache |-> list_cache]
    ELSE IF ~c.ok
    THEN [raised |-> TRUE, ret |-> None, urls |-> <<Call("cg_list", FALSE, None)>>,
          map_cache |-> map_cache, list_cache |-> load_coingecko_list_cache(c)]
    ELSE LET m == build_coingecko_mappings(c.coins)
         IN  [raised |-> FALSE, ret |-> m, urls |-> <<Call("cg_list", TRUE, c.coins)>>,
              map_cache |-> lru_cache_store(m), list_cache |-> load_coingecko_list_cache(c)]

-----------------------------------------------------------------------------
(* Upstream answers *)

\* GET HELIUS_TOKEN_METADATA: an exception of requests, or the JSON body.
Decimals(kind, val) == [kind |-> kind, val |-> val]
JsonBody(kind, items) == [kind |-> kind, items |-> items]
HeliusMetaOutcomes ==
    {[ok |-> FALSE, body |-> JsonBody("null", <<>>)]} \cup
    {[ok |-> TRUE, body |-> b] : b \in
        {JsonBody("null", <<>>), JsonBody("object", <<>>), JsonBody("list", <<>>),
         JsonBody("list", <<[decimals |-> Decimals("absent", 0)]>>),
         JsonBody("list", <<[decimals |-> Decimals("int", 6)]>>),
         JsonBody("list", <<[decimals |-> Decimals("str", 6)]>>)}}

\* GET JUPITER_QUOTE_API: an exception of httpx, or json().get("data", []).
OUT_2500000 == <<"2","5","0","0","0","0","0">>
OUT_abc == <<"a","b","c">>
JupiterData ==
    {<<>>, <<[outAmount |-> None]>>, <<[outAmount |-> <<>>]>>,
     <<[outAmount |-> OUT_abc]>>, <<[outAmount |-> OUT_2500000]>>,
     <<[outAmount |-> <<"7">>], [outAmount |-> OUT_abc]>>}
JupiterOutcomes ==
    {[ok |-> FALSE, body |-> <<>>]} \cup {[ok |-> TRUE, body |-> d] : d \in JupiterData}

\* GET COINGECKO_PRICE_URL: an exception of requests, or
\* price_data.get(cg_id, {}).get("usd").
Usd(kind, val) == [kind |-> kind, val |-> val]
CgPriceOutcomes ==
    {[ok |-> FALSE, body |-> Usd("absent", 0)],
     [ok |-> TRUE, body |-> Usd("absent", 0)],
     [ok |-> TRUE, body |-> Usd("num", 3)]}

\* GET HELIUS_BALANCE_URL: an exception of httpx, or the JSON body.
MaxTokens == 2
AMT_1 == <<"1">>
AMT_15 == <<"1","5">>
AMT_1500 == <<"1","5","0","0">>
AMT_2000000 == <<"2","0","0","0","0","0","0">>
UpstreamTokens ==
    {[mint |-> BONK_MINT, amount |-> AMT_1, decimals |-> 9],
     [mint |-> BONK_MINT, amount |-> AMT_1500, decimals |-> 6],
     [mint |-> USDC_MINT, amount |-> AMT_2000000, decimals |-> 6],
     [mint |-> UPPER_MINT, amount |-> AMT_15, decimals |-> 0],
     [mint |-> UPPER_MINT, amount |-> OUT_abc, decimals |-> 6]}
Lamports(kind, val) == [kind |-> kind, val |-> val]
WalletBody(kind, lamports, tokens) == [kind |-> kind, lamports |-> lamports, tokens |-> tokens]
SeqsUpTo(S, n) == {AsSeq(f) : f \in UNION {[1..k -> S] : k \in 0..n}}
WalletOutcomes ==
    {[ok |-> FALSE, body |-> WalletBody("null", Lamports("absent", 0), <<>>)],
     [ok |-> TRUE, body |-> WalletBody("null", Lamports("absent", 0), <<>>)],
     [ok |-> TRUE, body |-> WalletBody("object", Lamports("absent", 0), <<>>)]} \cup
    {[ok |-> TRUE, body |-> WalletBody("object", l, ts)] :
        l \in {Lamports("absent", 0), Lamports("int", 1500000000)},
        ts \in SeqsUpTo(UpstreamTokens, MaxTokens)}

\* address of GET /wallet/{address}
WalletAddresses ==
    {AsSeq([i \in 1..n |-> "A"]) : n \in {0, 31, 32, 44, 45}} \cup {BONK_MINT, ID_dash32}

-----------------------------------------------------------------------------
(* The request in flight *)

NoLoc == [mint |-> None, decimals |-> Decimals("absent", 0), cg_id |-> None,
          in_mint |-> None, out_mint |-> None]
NoReq == [ep |-> "none", a |-> None, b |-> None]

Idle == pc = "idle"

\* The handler returns or raises: the response is sent.
Respond(status, body) ==
    /\ resp' = [status |-> status, body |-> body]
    /\ pc' = "done"

\* Book-keeping of the calls of load_spl_token_list a step made (tls: what
\* each call returned, the URLs it requested, the cache it left).
CountApi(cs, api) == Cardinality({i \in 1..Len(cs) : cs[i].api = api})
RECURSIVE ConcatUrls(_)
ConcatUrls(tls) == IF Len(tls) = 0 THEN <<>> ELSE tls[1].urls \o ConcatUrls(Tail(tls))
TokenListCalls(tls) ==
    LET urls == ConcatUrls(tls) IN
    /\ spl_cache' = IF Len(tls) = 0 THEN spl_cache ELSE tls[Len(tls)].cache
    /\ calls' = urls
    /\ tl_returns' = tl_returns \cup {tls[i].ret : i \in 1..Len(tls)}
    /\ tl_requests' = [u \in {"tokenlist1", "tokenlist2"} |->
                          tl_requests[u] + CountApi(urls, u)]

\* The answers a token-list URL may give when it is asked; the second URL
\* is asked only after the first (with answer o1) failed.
FirstUrl(fetch) == IF fetch THEN UrlOutcomes ELSE {UrlFail}
SecondUrl(fetch, o1) == IF fetch /\ ~o1.ok THEN UrlOutcomes ELSE {UrlFail}

Resolved(symbol, r, tokens) ==
    [symbol |-> symbol, status |-> r.status, mint |-> r.mint,
     consulted |-> r.consulted, tokens |-> IF r.consulted THEN tokens ELSE <<>>]

-----------------------------------------------------------------------------
(* GET /price/{symbol_or_mint}: get_token_price *)

\* Steps 1-3 up to the key check: resolve, the USDC short cut, os.getenv.
get_token_price_resolve ==
    /\ Idle /\ nreq < MaxRequests
    /\ \E ident \in PriceIdents :
        \E o1 \in FirstUrl(consults_token_list(ident) /\ ~spl_cache.cached) :
        \E o2 \in SecondUrl(consults_token_list(ident) /\ ~spl_cache.cached, o1) :
         LET tl == cached_load_spl_token_list(spl_cache, o1, o2)
             r == Resolve(ident, tl.ret)
         IN  /\ TokenListCalls(IF r.consulted THEN <<tl>> ELSE <<>>)
             /\ req' = [ep |-> "price", a |-> ident, b |-> None]
             /\ resolved' = <<Resolved(ident, r, tl.ret)>>
             /\ nreq' = nreq + 1
             /\ IF r.status = 404
                THEN Respond(404, None) /\ key_read' = FALSE /\ loc' = NoLoc
                ELSE IF r.mint = USDC_MINT
                THEN /\ Respond(200, [mint |-> r.mint, price |-> Quotient(1, 1),
                                      source |-> "static"])
                     /\ key_read' = FALSE /\ loc' = [NoLoc EXCEPT !.mint = r.mint]
                ELSE /\ key_read' = TRUE
                     /\ loc' = [NoLoc EXCEPT !.mint = r.mint]
                     /\ IF ~env_key THEN Respond(501, None)
                        ELSE pc' = "price_helius" /\ resp' = NoResp
    /\ UNCHANGED <<env_key, cg_list_cache, cg_map_cache, cg_requests, cg_last>>

\* Step 3: decimals from the Helius token metadata.
get_token_price_helius ==
    /\ pc = "price_helius"
    /\ \E h \in HeliusMetaOutcomes :
         /\ calls' = Append(calls, Call("helius_meta", h.ok, h.body))
         /\ IF ~h.ok THEN Respond(502, None) /\ loc' = loc
            ELSE IF h.body.kind # "list" \/ Len(h.body.items) = 0
            THEN Respond(404, None) /\ loc' = loc
            ELSE IF h.body.items[1].decimals.kind = "absent"
            THEN Respond(404, None) /\ loc' = loc
            ELSE /\ loc' = [loc EXCEPT !.decimals = h.body.items[1].decimals]
                 /\ pc' = "price_jupiter" /\ resp' = resp
    /\ UNCHANGED <<env_key, spl_cache, cg_list_cache, cg_map_cache, req, key_read,
                   resolved, nreq, tl_requests, tl_returns, cg_requests,
                   cg_last>>

\* A step 4 that never returns a price
jupiter_quote_price_ignored(jdata) == [kind |-> "none", val |-> [num |-> 0, den |-> 1]]

\* jdata = jresp.json().get("data", []) to the return of step 4: a price,
\* nothing, or an exception of int().
jupiter_quote_price(jdata) ==
    IF Len(jdata) > 0 /\ truthy(jdata[1].outAmount)
    THEN LET n == py_int(jdata[1].outAmount)
         IN  IF n.ok THEN [kind |-> "price", val |-> Quotient(n.val, USDC_UNIT)]
             ELSE [kind |-> "raised", val |-> Quotient(0, 1)]
    ELSE [kind |-> "none", val |-> Quotient(0, 1)]

\* Step 4: the Jupiter quote; every exception is logged and swallowed.
get_token_price_jupiter ==
    /\ pc = "price_jupiter"
    /\ \/ \* 10 ** decimals raises TypeError before the GET is issued
          /\ loc.decimals.kind # "int"
          /\ calls' = calls /\ resp' = resp /\ pc' = "price_cg_id"
       \/ /\ loc.decimals.kind = "int"
          /\ \E j \in JupiterOutcomes :
               LET q == jupiter_quote_price(j.body) IN
               /\ calls' = Append(calls, Call("jupiter", j.ok, j.body))
               /\ IF j.ok /\ q.kind = "price"
                  THEN Respond(200, [mint |-> loc.mint, price |-> q.val,
                                     source |-> "jupiter"])
                  ELSE pc' = "price_cg_id" /\ resp' = resp
    /\ UNCHANGED <<env_key, spl_cache, cg_list_cache, cg_map_cache, req, loc,
                   key_read, resolved, nreq, tl_requests, tl_returns,
                   cg_requests, cg_last>>

\* Step 5: the CoinGecko id, from the memoized mappings.  An exception of
\* load_coingecko_list is not caught by the handler: the server answers 500.
get_token_price_coingecko_id ==
    /\ pc = "price_cg_id"
    /\ \E c \in CgListOutcomes :
         LET b == cached_build_coingecko_mappings(cg_map_cache, cg_list_cache, c)
             id1 == dict_lookup(b.ret.mint_to_cgid, loc.mint)
             sym == lstrip_dollar(upper(strip(req.a)))
             cg_id == IF truthy(id1) THEN id1
                      ELSE dict_lookup(b.ret.symbol_to_cgid, sym)
         IN  /\ (cg_map_cache.cached \/ cg_list_cache.cached) => c = CgListFail
             /\ cg_map_cache' = b.map_cache
             /\ cg_list_cache' = b.list_cache
             /\ calls' = calls \o b.urls
             /\ cg_requests' = cg_requests + Len(b.urls)
             /\ cg_last' = IF Len(b.urls) = 0 THEN cg_last
                           ELSE IF b.urls[1].ok THEN "ok" ELSE "failed"
             /\ IF b.raised THEN Respond(500, None) /\ loc' = loc
                ELSE IF ~truthy(cg_id) THEN Respond(404, None) /\ loc' = loc
                ELSE /\ loc' = [loc EXCEPT !.cg_id = cg_id]
                     /\ pc' = "price_cg_price" /\ resp' = resp
    /\ UNCHANGED <<env_key, spl_cache, req, key_read, resolved, nreq, tl_requests,
                   tl_returns>>

\* Step 6: the CoinGecko price.
get_token_price_coingecko_price ==
    /\ pc = "price_cg_price"
    /\ \E p \in CgPriceOutcomes :
         /\ calls' = Append(calls, Call("cg_price", p.ok, p.body))
         /\ IF ~p.ok THEN Respond(502, None)
            ELSE IF p.body.kind = "absent" THEN Respond(404, None)
            ELSE Respond(200, [mint |-> loc.mint, price |-> Quotient(p.body.val, 1),
                               source |-> "coingecko"])
    /\ UNCHANGED <<env_key, spl_cache, cg_list_cache, cg_map_cache, req, loc,
                   key_read, resolved, nreq, tl_requests, tl_returns,
                   cg_requests, cg_last>>

-----------------------------------------------------------------------------
(* GET /wallet/{address}: get_wallet_balances *)

\* The check without its upper bound
address_rejected_short_only(address) == Len(address) < AddrMinLen

\* if len(address) < 32 or len(address) > 44
address_rejected(address) == Len(address) < AddrMinLen \/ Len(address) > AddrMaxLen

\* The length check and the key check.
get_wallet_balances_validate ==
    /\ Idle /\ nreq < MaxRequests
    /\ \E address \in WalletAddresses :
         /\ req' = [ep |-> "wallet", a |-> address, b |-> None]
         /\ IF address_rejected(address)
            THEN Respond(400, None) /\ key_read' = FALSE
            ELSE /\ key_read' = TRUE
                 /\ IF ~env_key THEN Respond(501, None)
                    ELSE pc' = "wallet_helius" /\ resp' = NoResp
    /\ nreq' = nreq + 1
    /\ calls' = <<>> /\ resolved' = <<>> /\ loc' = NoLoc
    /\ UNCHANGED <<env_key, spl_cache, cg_list_cache, cg_map_cache, tl_requests,
                   tl_returns, cg_requests, cg_last>>

\* tokens.append({"mint": ..., "amount": str(amt), "decimals": ...}) per token
wallet_tokens(ts) ==
    AsSeq([i \in 1..Len(ts) |->
              [mint |-> ts[i].mint,
               amount |-> str_of_quotient(py_int(ts[i].amount).val, ts[i].decimals),
               decimals |-> ts[i].decimals]])

\* The body of the try block from resp.json() on: the returned dict, or an
\* exception (AttributeError on a null body, ValueError of int()).
wallet_result(data) ==
    IF data.kind # "object" THEN [raised |-> TRUE, body |-> None]
    ELSE IF \E i \in 1..Len(data.tokens) : ~py_int(data.tokens[i].amount).ok
    THEN [raised |-> TRUE, body |-> None]
    ELSE [raised |-> FALSE,
          body |-> [sol_balance |->
                        Quotient(IF data.lamports.kind = "absent" THEN 0
                                 ELSE data.lamports.val, LAMPORTS_PER_SOL),
                    tokens |-> wallet_tokens(data.tokens)]]

\* The Helius balances call; every exception becomes 502.
get_wallet_balances_helius ==
    /\ pc = "wallet_helius"
    /\ \E w \in WalletOutcomes :
         LET r == wallet_result(w.body) IN
         /\ calls' = Append(calls, Call("helius_balances", w.ok, w.body))
         /\ IF ~w.ok \/ r.raised THEN Respond(502, None)
            ELSE Respond(200, r.body)
    /\ UNCHANGED <<env_key, spl_cache, cg_list_cache, cg_map_cache, req, loc,
                   key_read, resolved, nreq, tl_requests, tl_returns,
                   cg_requests, cg_last>>

-----------------------------------------------------------------------------
(* GET /swap: simulate_swap *)

\* in_mint, out_mint = the two resolve_symbol_or_mint calls; the second is
\* not made when the first raises.
simulate_swap_resolve ==
    /\ Idle /\ nreq < MaxRequests
    /\ \E i \in SwapIdents, o \in SwapIdents :
        \E o1 \in FirstUrl(consults_token_list(i) /\ ~spl_cache.cached) :
        \E o2 \in SecondUrl(consults_token_list(i) /\ ~spl_cache.cached, o1) :
        LET tl1 == cached_load_spl_token_list(spl_cache, o1, o2)
            r1 == Resolve(i, tl1.ret)
            c1 == IF r1.consulted THEN tl1.cache ELSE spl_cache
            second == r1.status = 200
            fetch2 == second /\ consults_token_list(o) /\ ~c1.cached
        IN
        \E o3 \in FirstUrl(fetch2) :
        \E o4 \in SecondUrl(fetch2, o3) :
         LET tl2 == cached_load_spl_token_list(c1, o3, o4)
             r2 == Resolve(o, tl2.ret)
         IN  /\ TokenListCalls((IF r1.consulted THEN <<tl1>> ELSE <<>>)
                               \o (IF second /\ r2.consulted THEN <<tl2>> ELSE <<>>))
             /\ req' = [ep |-> "swap", a |-> i, b |-> o]
             /\ resolved' = <<Resolved(i, r1, tl1.ret)>>
                            \o (IF second THEN <<Resolved(o, r2, tl2.ret)>> ELSE <<>>)
             /\ IF ~second \/ r2.status = 404
                THEN Respond(404, None) /\ loc' = NoLoc
                ELSE /\ loc' = [NoLoc EXCEPT !.in_mint = r1.mint, !.out_mint = r2.mint]
                     /\ pc' = "swap_jupiter" /\ resp' = NoResp
    /\ nreq' = nreq + 1
    /\ key_read' = FALSE
    /\ UNCHANGED <<env_key, cg_list_cache, cg_map_cache, cg_requests, cg_last>>

\* data = r.json().get("data", []) to the return: 404 on no route, the
\* quote, or an exception (KeyError of best["outAmount"], ValueError of int).
swap_result(data, in_mint, out_mint) ==
    IF Len(data) = 0 THEN [status |-> 404, body |-> None]
    ELSE IF data[1].outAmount = None \/ ~py_int(data[1].outAmount).ok
    THEN [status |-> 502, body |-> None]
    ELSE [status |-> 200,
          body |-> [inputMint |-> in_mint, outputMint |-> out_mint,
                    outAmount |-> str_of_quotient(py_int(data[1].outAmount).val, 6)]]

\* The Jupiter quote of /swap.
simulate_swap_jupiter ==
    /\ pc = "swap_jupiter"
    /\ \E j \in JupiterOutcomes :
         LET r == swap_result(j.body, loc.in_mint, loc.out_mint) IN
         /\ calls' = Append(calls, Call("jupiter", j.ok, j.body))
         /\ IF ~j.ok THEN Respond(502, None) ELSE Respond(r.status, r.body)
    /\ UNCHANGED <<env_key, spl_cache, cg_list_cache, cg_map_cache, req, loc,
                   key_read, resolved, nreq, tl_requests, tl_returns,
                   cg_requests, cg_last>>

-----------------------------------------------------------------------------
(* The process *)

\* The response has been sent: the handler's frame is gone and the server
\* waits for the next request.
request_finished ==
    /\ pc = "done"
    /\ pc' = "idle"
    /\ req' = NoReq /\ loc' = NoLoc /\ calls' = <<>> /\ key_read' = FALSE
    /\ resolved' = <<>> /\ resp' = NoResp
    /\ UNCHANGED <<env_key, spl_cache, cg_list_cache, cg_map_cache, nreq,
                   tl_requests, tl_returns, cg_requests, cg_last>>

Init ==
    /\ env_key \in BOOLEAN
    /\ spl_cache = Uncached
    /\ cg_list_cache = Uncached
    /\ cg_map_cache = Uncached
    /\ pc = "idle"
    /\ req = NoReq
    /\ loc = NoLoc
    /\ calls = <<>>
    /\ key_read = FALSE
    /\ resolved = <<>>
    /\ resp = NoResp
    /\ nreq = 0
    /\ tl_requests = [u \in {"tokenlist1", "tokenlist2"} |-> 0]
    /\ tl_returns = {}
    /\ cg_requests = 0
    /\ cg_last = "none"

Next ==
    \/ get_token_price_resolve
    \/ get_token_price_helius
    \/ get_token_price_jupiter
    \/ get_token_price_coingecko_id
    \/ get_token_price_coingecko_price
    \/ get_wallet_balances_validate
    \/ get_wallet_balances_helius
    \/ simulate_swap_resolve
    \/ simulate_swap_jupiter
    \/ request_finished

Spec == Init /\ [][Next]_vars

-----------------------------------------------------------------------------
(* Properties *)

IsPrice == req.ep = "price"
IsWallet == req.ep = "wallet"
IsSwap == req.ep = "swap"
Done == pc = "done"

CallsOf(apis) == SelectSeq(calls, LAMBDA c : c.api \in apis)
Called(api) == \E i \in DOMAIN calls : calls[i].api = api
Failed(api) == \E i \in DOMAIN calls : calls[i].api = api /\ ~calls[i].ok
Answered(api) == \E i \in DOMAIN calls : calls[i].api = api /\ calls[i].ok
BodyOf(api) == calls[CHOOSE i \in DOMAIN calls : calls[i].api = api].body

\* C1: GET /wallet/{address} answers 400 to every address shorter than 32 or
\* longer than 44 characters, without having read HELIUS_API_KEY and without
\* any upstream call; an address of 32 to 44 characters is never answered 400.
C1_WalletLengthCheck ==
    IsWallet =>
        IF Len(req.a) < 32 \/ Len(req.a) > 44
        THEN Done /\ resp.status = 400 /\ ~key_read /\ calls = <<>>
        ELSE resp.status # 400

C1_Witness ==
    IsWallet /\ Len(req.a) = 45 /\ Done /\ resp.status = 400

\* C2: a request whose upstream call failed, with no later provider of the
\* fallback chain to turn to, is answered 502: the Helius metadata call, the
\* CoinGecko coin-list download and the CoinGecko price call of /price, the
\* Helius balances call of /wallet, the Jupiter quote of /swap.
C2_UpstreamFailureIs502 ==
    (Done /\ ( \/ Failed("helius_meta") \/ Failed("cg_list") \/ Failed("cg_price")
               \/ Failed("helius_balances")
               \/ (IsSwap /\ Failed("jupiter")) ))
        => resp.status = 502

\* C2 without the coin-list download: every other upstream failure is a 502.
C2_ExceptCoinList ==
    (Done /\ ( \/ Failed("helius_meta") \/ Failed("cg_price")
               \/ Failed("helius_balances")
               \/ (IsSwap /\ Failed("jupiter")) ))
        => resp.status = 502

EmptyMetadata(b) ==
    \/ b.kind # "list"
    \/ Len(b.items) = 0
    \/ b.items[1].decimals.kind = "absent"
EmptyBalances(b) ==
    \/ b.kind = "null"
    \/ (b.kind = "object" /\ b.lamports.kind = "absent" /\ b.tokens = <<>>)

\* C3: an upstream that answers successfully with empty or null data gives
\* 404: an empty route list in /swap; an empty or non-list metadata body, or
\* an entry without decimals, and a missing usd price in /price; an empty
\* or null balances body in /wallet.
C3_EmptyUpstreamIs404 ==
    /\ (Done /\ IsSwap /\ Answered("jupiter") /\ BodyOf("jupiter") = <<>>)
           => resp.status = 404
    /\ (Done /\ IsPrice /\ Answered("helius_meta") /\ EmptyMetadata(BodyOf("helius_meta")))
           => resp.status = 404
    /\ (Done /\ IsPrice /\ Answered("cg_price") /\ BodyOf("cg_price").kind = "absent")
           => resp.status = 404
    /\ (Done /\ IsWallet /\ Answered("helius_balances")
             /\ EmptyBalances(BodyOf("helius_balances")))
           => resp.status = 404

\* C3 for /swap and /price only.
C3_SwapAndPrice ==
    /\ (Done /\ IsSwap /\ Answered("jupiter") /\ BodyOf("jupiter") = <<>>)
           => resp.status = 404
    /\ (Done /\ IsPrice /\ Answered("helius_meta") /\ EmptyMetadata(BodyOf("helius_meta")))
           => resp.status = 404
    /\ (Done /\ IsPrice /\ Answered("cg_price") /\ BodyOf("cg_price").kind = "absent")
           => resp.status = 404

Providers == {"helius_meta", "jupiter", "cg_list", "cg_price"}
Rank(api) ==
    CASE api = "helius_meta" -> 1 [] api = "jupiter" -> 2
      [] api = "cg_list" -> 3 [] api = "cg_price" -> 4
CoinGeckoConsulted ==
    pc \in {"price_cg_id", "price_cg_price"} \/ Called("cg_list") \/ Called("cg_price")
HasOutAmount(data) == Len(data) > 0 /\ data[1].outAmount # None /\ data[1].outAmount # <<>>

\* Helius first, then Jupiter, then CoinGecko, each endpoint at most once.
LinearOrder ==
    LET prov == CallsOf(Providers) IN
    /\ \A i \in DOMAIN prov : \A j \in DOMAIN prov :
           i < j => Rank(prov[i].api) < Rank(prov[j].api)
    /\ Len(prov) > 0 => prov[1].api = "helius_meta"

\* C4 as stated: in a /price request the providers are called in the order
\* Helius, Jupiter, CoinGecko, each at most once; CoinGecko is reached only
\* after the Jupiter call failed or returned no outAmount; and a Jupiter
\* answer with a non-empty outAmount ends the request with source "jupiter"
\* and without CoinGecko.
C4_AsStated ==
    IsPrice =>
        /\ LinearOrder
        /\ CoinGeckoConsulted =>
               /\ Called("jupiter")
               /\ (Failed("jupiter") \/ ~HasOutAmount(BodyOf("jupiter")))
        /\ (Answered("jupiter") /\ HasOutAmount(BodyOf("jupiter"))) =>
               /\ Done /\ resp.status = 200 /\ resp.body.source = "jupiter"
               /\ ~Called("cg_list") /\ ~Called("cg_price")

\* C4, amended: the order and the at-most-once are as stated; CoinGecko is
\* reached only after the Jupiter step raised (10 ** decimals failed before
\* the call, the call failed, or int() rejected outAmount) or found no
\* outAmount; and a Jupiter answer whose first entry has a non-empty
\* outAmount that int() accepts ends the request with source "jupiter" and
\* without CoinGecko.
C4_ProviderOrder ==
    IsPrice =>
        /\ LinearOrder
        /\ CoinGeckoConsulted =>
               \/ (~Called("jupiter") /\ loc.decimals.kind # "int")
               \/ Failed("jupiter")
               \/ (Answered("jupiter") /\ ~HasOutAmount(BodyOf("jupiter")))
               \/ (Answered("jupiter") /\ HasOutAmount(BodyOf("jupiter"))
                     /\ ~py_int(BodyOf("jupiter")[1].outAmount).ok)
        /\ (Answered("jupiter") /\ HasOutAmount(BodyOf("jupiter"))
                /\ py_int(BodyOf("jupiter")[1].outAmount).ok) =>
               /\ Done /\ resp.status = 200 /\ resp.body.source = "jupiter"
               /\ resp.body.price =
                      [num |-> py_int(BodyOf("jupiter")[1].outAmount).val, den |-> 1000000]
               /\ ~Called("cg_list") /\ ~Called("cg_price")

C4_Witness ==
    /\ IsPrice /\ Done /\ resp.status = 200 /\ resp.body.source = "coingecko"
    /\ Len(CallsOf(Providers)) = 4
    /\ Answered("jupiter") /\ HasOutAmount(BodyOf("jupiter"))

\* C5: each token-list URL is requested at most once in the process, the
\* second only right after the first failed, and load_spl_token_list has only
\* ever returned one value: the one its first call built (the empty list
\* when both URLs failed then), which is the cached one.
C5_TokenListLoadedOnce ==
    /\ tl_requests["tokenlist1"] <= 1
    /\ tl_requests["tokenlist2"] <= tl_requests["tokenlist1"]
    /\ \A i \in DOMAIN calls :
           calls[i].api = "tokenlist2" =>
               i > 1 /\ calls[i - 1].api = "tokenlist1" /\ ~calls[i - 1].ok
    /\ Cardinality(tl_returns) <= 1
    /\ tl_returns # {} => (tl_requests["tokenlist1"] = 1 /\ tl_returns = {spl_cache.value})
    /\ \A i \in DOMAIN resolved :
           resolved[i].consulted => resolved[i].tokens \in tl_returns

\* A later request is served from the memoized empty list.
C5_Witness ==
    /\ Done /\ nreq >= 2
    /\ \E i \in DOMAIN resolved : resolved[i].consulted /\ resolved[i].tokens = <<>>
    /\ ~Called("tokenlist1") /\ ~Called("tokenlist2")
    /\ tl_requests["tokenlist2"] = 1

\* The mint as the caller passed it: whitespace and leading '$' trimmed
passed_mint(symbol) == strip(lstrip_dollar(strip(symbol)))

\* C6: an input that looks like a mint (32 to 44 alphanumeric characters once
\* whitespace and a leading '$' are trimmed) is returned character for
\* character, lower-case letters included, without a token-list lookup.
C6_MintReturnedAsIs ==
    \A i \in DOMAIN resolved :
        LET m == passed_mint(resolved[i].symbol) IN
        (32 <= Len(m) /\ Len(m) <= 44 /\ isalnum(m)) =>
            /\ resolved[i].status = 200
            /\ resolved[i].mint = m
            /\ ~resolved[i].consulted

\* C6 for what the code does return: the upper-cased mint, without a lookup.
C6_MintUpperCased ==
    \A i \in DOMAIN resolved :
        LET m == passed_mint(resolved[i].symbol) IN
        (32 <= Len(m) /\ Len(m) <= 44 /\ isalnum(m)) =>
            /\ resolved[i].status = 200
            /\ resolved[i].mint = upper(m)
            /\ ~resolved[i].consulted

\* C7: GET /price for USDC, by the symbol USDC (any case, optional '$') or
\* by the USDC mint address, returns price 1.0, source "static" and the USDC
\* mint, without reading HELIUS_API_KEY and without any upstream call.
C7_UsdcIsStatic ==
    (IsPrice /\ (raw_of(req.a) = SYM_USDC \/ passed_mint(req.a) = USDC_MINT)) =>
        /\ Done /\ resp.status = 200
        /\ resp.body = [mint |-> USDC_MINT, price |-> [num |-> 1, den |-> 1],
                        source |-> "static"]
        /\ ~key_read /\ calls = <<>>

\* C7 for the symbol only.
C7_UsdcSymbolIsStatic ==
    (IsPrice /\ raw_of(req.a) = SYM_USDC) =>
        /\ Done /\ resp.status = 200
        /\ resp.body = [mint |-> USDC_MINT, price |-> [num |-> 1, den |-> 1],
                        source |-> "static"]
        /\ ~key_read /\ calls = <<>>

RECURSIVE Pow10(_)
Pow10(d) == IF d = 0 THEN 1 ELSE 10 * Pow10(d - 1)

\* n / 10^d written positionally: integer part, point, d fraction digits
PositionalDecimal(n, d) ==
    LET frac == int_digits(n % Pow10(d))
    IN  int_digits(n \div Pow10(d)) \o <<".">>
        \o (IF d = 0 THEN <<"0">> ELSE zeros(d - Len(frac)) \o frac)

\* A decimal string up to trailing fraction zeros ("2.0" and "2.000000")
TrimDecimal(s) == rstrip_set(rstrip_set(s, {"0"}), {"."})

\* C8: a successful /wallet response has sol_balance = lamports / 10^9 (0
\* when lamports is absent) and one token per upstream token, in order, with
\* the same mint and decimals and with amount the decimal string of the raw
\* integer amount divided by 10^decimals.
C8_WalletConversion ==
    (IsWallet /\ Done /\ resp.status = 200) =>
        LET up == BodyOf("helius_balances") IN
        /\ resp.body.sol_balance =
               [num |-> IF up.lamports.kind = "absent" THEN 0 ELSE up.lamports.val,
                den |-> 1000000000]
        /\ Len(resp.body.tokens) = Len(up.tokens)
        /\ \A i \in DOMAIN up.tokens :
               /\ resp.body.tokens[i].mint = up.tokens[i].mint
               /\ resp.body.tokens[i].decimals = up.tokens[i].decimals
               /\ TrimDecimal(resp.body.tokens[i].amount) =
                      TrimDecimal(PositionalDecimal(digits_value(up.tokens[i].amount),
                                                    up.tokens[i].decimals))

\* C8 without the amount strings.
C8_ShapeOnly ==
    (IsWallet /\ Done /\ resp.status = 200) =>
        LET up == BodyOf("helius_balances") IN
        /\ resp.body.sol_balance =
               [num |-> IF up.lamports.kind = "absent" THEN 0 ELSE up.lamports.val,
                den |-> 1000000000]
        /\ Len(resp.body.tokens) = Len(up.tokens)
        /\ \A i \in DOMAIN up.tokens :
               /\ resp.body.tokens[i].mint = up.tokens[i].mint
               /\ resp.body.tokens[i].decimals = up.tokens[i].decimals

\* C9: SOL and WSOL resolve to the wrapped-SOL mint and USDC to the USDC
\* mint without the token list; any other input that is not mint-like
\* resolves to the address of the first entry of the cached token list whose
\* symbol equals it case-insensitively, and raises 404 exactly when there is
\* no such entry.
C9_SymbolResolution ==
    \A k \in DOMAIN resolved :
        LET e == resolved[k]
            raw == raw_of(e.symbol)
            hits == {i \in DOMAIN e.tokens :
                        upper(IF e.tokens[i].symbol = None THEN <<>>
                              ELSE e.tokens[i].symbol) = upper(raw)}
        IN  /\ raw \in {SYM_SOL, SYM_WSOL} =>
                (e.status = 200 /\ e.mint = WSOL_MINT /\ ~e.consulted)
            /\ raw = SYM_USDC =>
                (e.status = 200 /\ e.mint = USDC_MINT /\ ~e.consulted)
            /\ (raw \notin {SYM_SOL, SYM_WSOL, SYM_USDC}
                  /\ ~(32 <= Len(raw) /\ Len(raw) <= 44 /\ isalnum(raw))) =>
                /\ e.consulted /\ e.tokens = spl_cache.value
                /\ (e.status = 404) <=> (hits = {})
                /\ hits # {} =>
                     /\ e.status = 200
                     /\ e.mint = e.tokens[CHOOSE i \in hits : \A j \in hits : i <= j].address

\* "$Bonk" finds the first of two entries that match it.
C9_Witness ==
    \E k \in DOMAIN resolved :
        /\ resolved[k].symbol = ID_bonk /\ resolved[k].tokens = TOKENS_A
        /\ resolved[k].status = 200 /\ resolved[k].mint = BONK_MINT

\* C10: a failed coin-list download leaves both caches empty, and the next
\* request that reaches the CoinGecko step downloads again; once a download
\* succeeded the list is never requested again and the cached list and
\* mappings never change.
C10_CoinListMemo ==
    [][ /\ cg_last' = "failed" => (~cg_list_cache'.cached /\ ~cg_map_cache'.cached)
        /\ (pc = "price_cg_id" /\ pc' # pc /\ cg_last = "failed") =>
               (cg_requests' = cg_requests + 1 /\ Called("cg_list")')
        /\ cg_list_cache.cached =>
               (cg_requests' = cg_requests /\ cg_list_cache' = cg_list_cache)
        /\ cg_map_cache.cached => cg_map_cache' = cg_map_cache
        /\ cg_last' = "ok" =>
               /\ cg_list_cache'.cached
               /\ cg_map_cache' = [cached |-> TRUE,
                                   value |-> build_coingecko_mappings(cg_list_cache'.value)]
      ]_vars

\* A failed download, a retry that succeeded, and a third request served
\* from the cache.
C10_Witness ==
    /\ cg_requests = 2 /\ cg_list_cache.cached /\ nreq = 3
    /\ pc = "price_cg_price" /\ ~Called("cg_list")

====
